---------------------------- MODULE Spec2Model ----------------------------
(***************************************************************************)
(* The text-tools pipeline: parseInput -> transformValues -> joinValues    *)
(* (the text-engine module), modelled on strings represented as sequences  *)
(* of one-character strings.                                               *)
(***************************************************************************)
EXTENDS Integers, Sequences, FiniteSets, TLC

VARIABLES pc, text, wrapper, delimiter, customDelimiter, caseMode, dedup,
          trim, parsed, transformed, output, round, firstOut,
          argv, isTTY, filePath, exitCode, stdout, stderr,
          outputV1, outputV2,
          copied, timers,
          isDragging, dragCounter, error, loading, reads, delivered, event

vars == <<pc, text, wrapper, delimiter, customDelimiter, caseMode, dedup,
          trim, parsed, transformed, output, round, firstOut,
          argv, isTTY, filePath, exitCode, stdout, stderr,
          outputV1, outputV2,
          copied, timers,
          isDragging, dragCounter, error, loading, reads, delivered, event>>

options == <<wrapper, delimiter, customDelimiter, caseMode, dedup, trim>>

\* the process state of the command-line tool
cli == <<argv, isTTY, filePath, exitCode, stdout, stderr>>

\* the output rendered by the two versions of the App
copies == <<outputV1, outputV2>>

\* the copied indicator of the App and its pending timers
app == <<copied, timers>>

\* the state of the FileUpload component, its reads in progress, the calls
\* of onFileContent so far and the handler that ran last
upload == <<isDragging, dragCounter, error, loading, reads, delivered, event>>

(***************************************************************************)
(* Bounds of the model.                                                    *)
(***************************************************************************)
\* longest raw text enumerated exhaustively for the parser
MaxTextLen == 4
\* longest raw text enumerated exhaustively for the whole pipeline
MaxPipeLen == 3
\* longest value list handed directly to transformValues
MaxVals == 3
\* longest value list handed directly to joinValues
MaxJoinVals == 3
\* longest parsed list that is formatted and then formatted again
MaxIdemVals == 2
\* most wrapped values in an input text that is wrapped anew
MaxWrapVals == 2

(***************************************************************************)
(* Types of the text-engine module.                                        *)
(***************************************************************************)
Wrapper == {"'", "\"", "(", "none"}
Delimiter == {",", ";", "NEWLINE", "COMMA_NEWLINE", "|", "custom"}
CaseMode == {"none", "upper", "lower"}

DEFAULT_WRAPPER == "'"
DEFAULT_DELIMITER == ","
DEFAULT_CASE == "none"
DEFAULT_DEDUP == TRUE
DEFAULT_TRIM == TRUE

(***************************************************************************)
(* Characters.                                                             *)
(***************************************************************************)
\* variant: the pipe is missing from the character class
IsDelimiterChar_NoPipe(c) == c \in {",", ";", "\n"}

\* the character class of the split pattern /[,;\n|]+/
IsDelimiterChar(c) == c \in {",", ";", "\n", "|"}

\* the characters String.prototype.trim removes (those the model uses)
IsWhitespace(c) == c \in {" ", "\t", "\n", "\r"}

LowerLetters == <<"a","b","c","d","e","f","g","h","i","j","k","l","m",
                  "n","o","p","q","r","s","t","u","v","w","x","y","z">>
UpperLetters == <<"A","B","C","D","E","F","G","H","I","J","K","L","M",
                  "N","O","P","Q","R","S","T","U","V","W","X","Y","Z">>

IndexIn(c, letters) ==
    IF \E i \in 1..Len(letters) : letters[i] = c
    THEN CHOOSE i \in 1..Len(letters) : letters[i] = c
    ELSE 0

UpperChar(c) ==
    LET i == IndexIn(c, LowerLetters) IN IF i = 0 THEN c ELSE UpperLetters[i]

LowerChar(c) ==
    LET i == IndexIn(c, UpperLetters) IN IF i = 0 THEN c ELSE LowerLetters[i]

(***************************************************************************)
(* String primitives of JavaScript used by the engine.                     *)
(***************************************************************************)
RECURSIVE TrimStart(_)
TrimStart(s) ==
    IF Len(s) > 0 /\ IsWhitespace(s[1]) THEN TrimStart(Tail(s)) ELSE s

RECURSIVE TrimEnd(_)
TrimEnd(s) ==
    IF Len(s) > 0 /\ IsWhitespace(s[Len(s)])
    THEN TrimEnd(SubSeq(s, 1, Len(s) - 1))
    ELSE s

\* String.prototype.trim
Trim(s) == TrimEnd(TrimStart(s))

\* s.startsWith(c) / s.endsWith(c) for a one-character c
StartsWith(s, c) == Len(s) > 0 /\ s[1] = c
EndsWith(s, c) == Len(s) > 0 /\ s[Len(s)] = c

\* s.slice(1, -1)
SliceInner(s) == SubSeq(s, 2, Len(s) - 1)

ToUpperCase(s) == [i \in 1..Len(s) |-> UpperChar(s[i])]
ToLowerCase(s) == [i \in 1..Len(s) |-> LowerChar(s[i])]

\* text.split(/[,;\n|]+/): "cur" is the fragment being read, "acc" the
\* fragments closed so far; a delimiter run closes the fragment once.
RECURSIVE SplitFrom(_, _, _, _)
SplitFrom(s, i, cur, acc) ==
    IF i > Len(s) THEN Append(acc, cur)
    ELSE IF IsDelimiterChar(s[i])
         THEN IF i > 1 /\ IsDelimiterChar(s[i - 1])
              THEN SplitFrom(s, i + 1, cur, acc)
              ELSE SplitFrom(s, i + 1, <<>>, Append(acc, cur))
         ELSE SplitFrom(s, i + 1, Append(cur, s[i]), acc)

Split(s) == SplitFrom(s, 1, <<>>, <<>>)

\* Array.prototype.filter with part => part.length > 0
RECURSIVE FilterNonEmpty(_)
FilterNonEmpty(xs) ==
    IF xs = <<>> THEN <<>>
    ELSE IF Len(Head(xs)) > 0
         THEN <<Head(xs)>> \o FilterNonEmpty(Tail(xs))
         ELSE FilterNonEmpty(Tail(xs))

\* variant: the separator is written before every element
RECURSIVE Join_Leading(_, _)
Join_Leading(xs, sep) ==
    IF xs = <<>> THEN <<>> ELSE sep \o xs[1] \o Join_Leading(Tail(xs), sep)

\* variant: the separator is written after every element
RECURSIVE Join_Trailing(_, _)
Join_Trailing(xs, sep) ==
    IF xs = <<>> THEN <<>> ELSE xs[1] \o sep \o Join_Trailing(Tail(xs), sep)

\* Array.prototype.join
RECURSIVE Join(_, _)
Join(xs, sep) ==
    IF xs = <<>> THEN <<>>
    ELSE IF Len(xs) = 1 THEN xs[1]
    ELSE xs[1] \o sep \o Join(Tail(xs), sep)

\* [...new Set(xs)]: first occurrences, in insertion order
RECURSIVE UniqueFrom(_, _, _)
UniqueFrom(xs, i, acc) ==
    IF i > Len(xs) THEN acc
    ELSE IF \E k \in 1..Len(acc) : acc[k] = xs[i]
         THEN UniqueFrom(xs, i + 1, acc)
         ELSE UniqueFrom(xs, i + 1, Append(acc, xs[i]))

\* variant: the last occurrence of each value is the one kept
RECURSIVE Unique_KeepLast(_)
Unique_KeepLast(xs) ==
    IF xs = <<>> THEN <<>>
    ELSE IF \E k \in 2..Len(xs) : xs[k] = Head(xs)
         THEN Unique_KeepLast(Tail(xs))
         ELSE <<Head(xs)>> \o Unique_KeepLast(Tail(xs))

Unique(xs) == UniqueFrom(xs, 1, <<>>)

(***************************************************************************)
(* parseInput                                                              *)
(***************************************************************************)
\* variant: parentheses are not taken for wrapping
IsWrapped_QuotesOnly(t) ==
    \/ StartsWith(t, "\"") /\ EndsWith(t, "\"")
    \/ StartsWith(t, "'") /\ EndsWith(t, "'")

\* the wrapping test of the map callback
IsWrapped(t) ==
    \/ StartsWith(t, "\"") /\ EndsWith(t, "\"")
    \/ StartsWith(t, "'") /\ EndsWith(t, "'")
    \/ StartsWith(t, "(") /\ EndsWith(t, ")")

\* variant: the stripped fragment is returned without the second trim
StripPart_NoRetrim(part) ==
    LET trimmed == Trim(part)
    IN  IF IsWrapped(trimmed) THEN SliceInner(trimmed) ELSE trimmed

\* variant: wrapping is stripped until none is left
RECURSIVE StripPart_Recursive(_)
StripPart_Recursive(part) ==
    LET trimmed == Trim(part)
    IN  IF IsWrapped(trimmed) THEN StripPart_Recursive(SliceInner(trimmed))
        ELSE trimmed

\* the map callback: trim, strip one layer, trim again
StripPart(part) ==
    LET trimmed == Trim(part)
    IN  IF IsWrapped(trimmed) THEN Trim(SliceInner(trimmed)) ELSE Trim(trimmed)

\* parts.map(part => ...)
StripParts(parts) == [i \in 1..Len(parts) |-> StripPart(parts[i])]

\* variant: empty fragments are not discarded
ParseInput_NoFilter(t) == StripParts(Split(t))

ParseInput(t) == FilterNonEmpty(StripParts(Split(t)))

(***************************************************************************)
(* transformValues                                                         *)
(***************************************************************************)
TrimStage(values, tr) ==
    IF tr THEN [i \in 1..Len(values) |-> Trim(values[i])] ELSE values

CaseStage(values, cm) ==
    IF cm = "upper" THEN [i \in 1..Len(values) |-> ToUpperCase(values[i])]
    ELSE IF cm = "lower" THEN [i \in 1..Len(values) |-> ToLowerCase(values[i])]
    ELSE values

\* variant: duplicates are removed whatever the flag says
DedupStage_Always(values, dd) == Unique(values)

DedupStage(values, dd) == IF dd THEN Unique(values) ELSE values

\* variant: the wrapper character is escaped where the value holds it
RECURSIVE EscapeChar(_, _)
EscapeChar(v, w) ==
    IF v = <<>> THEN <<>>
    ELSE (IF Head(v) = w THEN <<"\\", w>> ELSE <<Head(v)>>) \o EscapeChar(Tail(v), w)

WrapValue_Escaped(v, w) ==
    IF w = "(" THEN <<"(">> \o EscapeChar(v, w) \o <<")">>
    ELSE <<w>> \o EscapeChar(v, w) \o <<w>>

\* variant: the parenthesis wrapper closes with the opening character
WrapValue_NoParenCase(v, w) == <<w>> \o v \o <<w>>

WrapValue(v, w) == IF w = "(" THEN <<"(">> \o v \o <<")">> ELSE <<w>> \o v \o <<w>>

WrapStage(values, w) ==
    IF w # "none" THEN [i \in 1..Len(values) |-> WrapValue(values[i], w)]
    ELSE values

\* variant: duplicates are removed before trim and case conversion
TransformValues_DedupFirst(values, w, dd, cm, tr) ==
    WrapStage(CaseStage(TrimStage(DedupStage(values, dd), tr), cm), w)

TransformValues(values, w, dd, cm, tr) ==
    WrapStage(DedupStage(CaseStage(TrimStage(values, tr), cm), dd), w)

(***************************************************************************)
(* joinValues                                                              *)
(***************************************************************************)
\* the characters of a delimiter kind used as a string
KindString(d) ==
    CASE d = "NEWLINE" -> <<"N","E","W","L","I","N","E">>
      [] d = "COMMA_NEWLINE" -> <<"C","O","M","M","A","_","N","E","W","L","I","N","E">>
      [] d = "custom" -> <<"c","u","s","t","o","m">>
      [] OTHER -> <<d>>

\* variant: a separator spelled NEWLINE, custom or not, becomes a newline
JoinValues_NewlineAlias(values, d, custom) ==
    LET delim == IF d = "custom" THEN custom ELSE KindString(d)
    IN  Join(values, IF delim = KindString("NEWLINE") THEN <<"\n">> ELSE delim)

\* variant: the comma-then-newline kind is not resolved
JoinValues_NoCommaNewline(values, d, custom) ==
    IF d = "NEWLINE" THEN Join(values, <<"\n">>)
    ELSE Join(values, IF d = "custom" THEN custom ELSE KindString(d))

JoinValues(values, d, custom) ==
    IF d = "NEWLINE" THEN Join(values, <<"\n">>)
    ELSE IF d = "COMMA_NEWLINE" THEN Join(values, <<",", "\n">>)
    ELSE Join(values, IF d = "custom" THEN custom ELSE KindString(d))

(***************************************************************************)
(* Inputs.                                                                 *)
(***************************************************************************)
StringsUpTo(alphabet, n) == UNION {[1..k -> alphabet] : k \in 0..n}

ParseAlphabet == {",", ";", "\n", "|", " ", "\"", "'", "(", ")", "a"}

\* the inputs the documentation gives as examples
ExampleTexts ==
    { <<"a", ",", ",", ";", ";", "\n", "\n", "b">>,
      <<"\"", "'", "v", "'", "\"">>,
      <<"\"", " ", " ", "'", "v", "'", " ", " ", "\"">>,
      <<"(", "m", "i", "s", "\"">>,
      <<"F","o","o", ",", " ", "f","o","o", ",", " ", "F","O","O">>,
      <<"a", ",", "b", ",", "c">>,
      <<"\"", "a", "\"", ",", " ", "'", "b", "'", ",", " ", "(", "c", ")">> }

ParseTexts == StringsUpTo(ParseAlphabet, MaxTextLen) \cup ExampleTexts

(***************************************************************************)
(* The caller: main of the CLI (and the App's render) runs the stages in   *)
(* sequence on its input and options.                                      *)
(***************************************************************************)
ParseStep ==
    /\ pc = "start"
    /\ parsed' = ParseInput(text)
    /\ pc' = "parsed"
    /\ UNCHANGED <<text, options, transformed, output, round, firstOut, cli, copies, app, upload>>

\* a transform that rewrites the caller's array as it goes
TransformStep_InPlace ==
    /\ pc = "parsed"
    /\ transformed' = TransformValues(parsed, wrapper, dedup, caseMode, trim)
    /\ parsed' = DedupStage(CaseStage(TrimStage(parsed, trim), caseMode), dedup)
    /\ pc' = "transformed"
    /\ UNCHANGED <<text, options, output, round, firstOut, cli, copies, app, upload>>

TransformStep ==
    /\ pc = "parsed"
    /\ transformed' = TransformValues(parsed, wrapper, dedup, caseMode, trim)
    /\ pc' = "transformed"
    /\ UNCHANGED <<text, options, parsed, output, round, firstOut, cli, copies, app, upload>>

JoinStep ==
    /\ pc = "transformed"
    /\ output' = JoinValues(transformed, delimiter, customDelimiter)
    /\ pc' = "joined"
    /\ UNCHANGED <<text, options, parsed, transformed, round, firstOut, cli, copies, app, upload>>

\* the engine called outside the command-line tool and outside the App
NoCli ==
    /\ argv = <<>>
    /\ isTTY = FALSE
    /\ filePath = <<>>
    /\ exitCode = "running"
    /\ stdout = <<>>
    /\ stderr = <<>>

NotRendered == [done |-> FALSE, value |-> <<>>]

NoCopies == outputV1 = NotRendered /\ outputV2 = NotRendered

\* useState(false) of copied, no timer started
NoApp == copied = FALSE /\ timers = 0

\* the FileUpload component as mounted
NoUpload ==
    /\ isDragging = FALSE
    /\ dragCounter = 0
    /\ error = "null"
    /\ loading = FALSE
    /\ reads = 0
    /\ delivered = 0
    /\ event = [handler |-> "none", withFile |-> FALSE, name |-> <<>>, size |-> 0]

DefaultOptions ==
    /\ wrapper = DEFAULT_WRAPPER
    /\ delimiter = DEFAULT_DELIMITER
    /\ customDelimiter = <<>>
    /\ caseMode = DEFAULT_CASE
    /\ dedup = DEFAULT_DEDUP
    /\ trim = DEFAULT_TRIM

\* the parser alone, on every text up to MaxTextLen
InitParse ==
    /\ pc = "start"
    /\ text \in ParseTexts
    /\ DefaultOptions
    /\ parsed = <<>>
    /\ transformed = <<>>
    /\ output = <<>>
    /\ round = 1
    /\ firstOut = <<>>
    /\ NoCli
    /\ NoCopies
    /\ NoApp
    /\ NoUpload

NextParse == ParseStep

SpecParse == InitParse /\ [][NextParse]_vars

ListsUpTo(pool, n) == UNION {[1..k -> pool] : k \in 0..n}

\* values handed to transformValues by a caller: case variants, untrimmed
\* values, values holding wrapper and delimiter characters
TransformPool ==
    { <<"a">>, <<"A">>, <<" ", "a">>, <<"b", " ">>, <<"'", "a", "'">>,
      <<"(", "a", ",", "\"", ")">> }

\* formatted values handed to joinValues
JoinPool == { <<"a">>, <<"b">>, <<"'", "a", "'">>, <<"a", ",">> }

\* custom delimiter strings
CustomPool ==
    { <<>>, <<" ">>, <<" ", "|", " ">>, <<"N","E","W","L","I","N","E">>,
      <<"C","O","M","M","A","_","N","E","W","L","I","N","E">>, <<"x", ",">>,
      <<";", "\n">> }

\* values parseInput can return: non-empty, trimmed, free of delimiters
ParsedPool ==
    { <<"a">>, <<"A">>, <<"a", " ", "b">>, <<"'", "a", "'">>, <<"(", "a">>,
      <<"a", ")">> }

PipeAlphabet == {"a", ",", " ", "'", "\n"}

PipeTexts == StringsUpTo(PipeAlphabet, MaxPipeLen) \cup ExampleTexts

\* the options records the CLI's argument parser builds: a custom string
\* only with the custom kind
AnyOptions ==
    /\ wrapper \in Wrapper
    /\ delimiter \in Delimiter
    /\ customDelimiter \in (IF delimiter = "custom" THEN CustomPool ELSE {<<>>})
    /\ caseMode \in CaseMode
    /\ dedup \in BOOLEAN
    /\ trim \in BOOLEAN

\* transformValues (and the join after it) called on any list of values, or
\* on the parse of a documented example
InitTransform ==
    /\ pc = "parsed"
    /\ \/ text = <<>> /\ parsed \in ListsUpTo(TransformPool, MaxVals)
       \/ text \in ExampleTexts /\ parsed = ParseInput(text)
    /\ wrapper \in Wrapper
    /\ dedup \in BOOLEAN
    /\ caseMode \in CaseMode
    /\ trim \in BOOLEAN
    /\ delimiter = DEFAULT_DELIMITER
    /\ customDelimiter = <<>>
    /\ transformed = <<>>
    /\ output = <<>>
    /\ round = 1
    /\ firstOut = <<>>
    /\ NoCli
    /\ NoCopies
    /\ NoApp
    /\ NoUpload

NextTransform == TransformStep \/ JoinStep

SpecTransform == InitTransform /\ [][NextTransform]_vars

\* joinValues called on any list of formatted values
InitJoin ==
    /\ pc = "transformed"
    /\ text = <<>>
    /\ parsed = <<>>
    /\ transformed \in ListsUpTo(JoinPool, MaxJoinVals)
    /\ wrapper = DEFAULT_WRAPPER
    /\ caseMode = DEFAULT_CASE
    /\ dedup = DEFAULT_DEDUP
    /\ trim = DEFAULT_TRIM
    /\ delimiter \in Delimiter
    /\ customDelimiter \in CustomPool
    /\ output = <<>>
    /\ round = 1
    /\ firstOut = <<>>
    /\ NoCli
    /\ NoCopies
    /\ NoApp
    /\ NoUpload

NextJoin == JoinStep

SpecJoin == InitJoin /\ [][NextJoin]_vars

\* the whole pipeline, format = join(transform(parse(text))), for any options
Init ==
    /\ pc = "start"
    /\ text \in PipeTexts
    /\ AnyOptions
    /\ parsed = <<>>
    /\ transformed = <<>>
    /\ output = <<>>
    /\ round = 1
    /\ firstOut = <<>>
    /\ NoCli
    /\ NoCopies
    /\ NoApp
    /\ NoUpload

Next == ParseStep \/ TransformStep \/ JoinStep

Spec == Init /\ [][Next]_vars

\* the output of one run is given back as the input of a second run with the
\* same options
Refeed ==
    /\ pc = "joined"
    /\ round = 1
    /\ text' = output
    /\ firstOut' = transformed
    /\ round' = 2
    /\ pc' = "start"
    /\ UNCHANGED <<options, parsed, transformed, output, cli, copies, app, upload>>

\* a parsed list formatted with dedup enabled, then formatted again
InitIdem ==
    /\ pc = "parsed"
    /\ text = <<>>
    /\ parsed \in ListsUpTo(ParsedPool, MaxIdemVals)
    /\ wrapper \in Wrapper
    /\ delimiter \in Delimiter
    /\ customDelimiter \in (IF delimiter = "custom" THEN CustomPool ELSE {<<>>})
    /\ caseMode \in CaseMode
    /\ dedup = TRUE
    /\ trim \in BOOLEAN
    /\ transformed = <<>>
    /\ output = <<>>
    /\ round = 1
    /\ firstOut = <<>>
    /\ NoCli
    /\ NoCopies
    /\ NoApp
    /\ NoUpload

NextIdem == TransformStep \/ JoinStep \/ Refeed \/ ParseStep

SpecIdem == InitIdem /\ [][NextIdem]_vars

\* values without quotes, parentheses or delimiters
PlainPool == { <<"a">>, <<"b">>, <<"A">>, <<"a", " ", "b">> }

\* a value as an input text carries it: in double quotes, single quotes or
\* parentheses
InputItem(item) ==
    LET v == item[1]
        w == item[2]
    IN  IF w = "(" THEN <<"(">> \o v \o <<")">> ELSE <<w>> \o v \o <<w>>

\* input texts in which every value is wrapped
WrappedTexts ==
    { Join([n \in 1..Len(items) |-> InputItem(items[n])], sep) :
        items \in ListsUpTo(PlainPool \X {"\"", "'", "("}, MaxWrapVals),
        sep \in { <<",">>, <<",", " ">>, <<"\n">> } }

WrappedExample ==
    <<"\"", "a", "\"", ",", " ", "'", "b", "'", ",", " ", "(", "c", ")">>

\* a text of wrapped values formatted with the single-quote wrapper, comma,
\* dedup off, trim on, case none
InitRewrap ==
    /\ pc = "start"
    /\ text \in WrappedTexts \cup {WrappedExample}
    /\ wrapper = "'"
    /\ delimiter = ","
    /\ customDelimiter = <<>>
    /\ caseMode = "none"
    /\ dedup = FALSE
    /\ trim = TRUE
    /\ parsed = <<>>
    /\ transformed = <<>>
    /\ output = <<>>
    /\ round = 1
    /\ firstOut = <<>>
    /\ NoCli
    /\ NoCopies
    /\ NoApp
    /\ NoUpload

NextRewrap == ParseStep \/ TransformStep \/ JoinStep

SpecRewrap == InitRewrap /\ [][NextRewrap]_vars

(***************************************************************************)
(* The command-line tool: option resolution, argument parsing and main.    *)
(***************************************************************************)
\* bound on the number of command-line arguments
MaxArgs == 2

\* what console.log(help) prints, as one token
HelpText == <<"Usage: text-tools [options] [file]">>

\* the properties every object literal inherits whose names survive
\* toLowerCase(): map["constructor"] is the Object function and
\* map["__proto__"] is Object.prototype, both truthy
ObjectPrototype ==
    { <<<<"c", "o", "n", "s", "t", "r", "u", "c", "t", "o", "r">>, "function Object() { [native code] }">>,
      <<<<"_", "_", "p", "r", "o", "t", "o", "_", "_">>, "[object Object]">> }

\* map[key]: an own property first, then the prototype chain, else undefined
Lookup(map, key) ==
    IF \E e \in map : e[1] = key
    THEN (CHOOSE e \in map : e[1] = key)[2]
    ELSE IF \E e \in ObjectPrototype : e[1] = key
         THEN (CHOOSE e \in ObjectPrototype : e[1] = key)[2]
         ELSE "undefined"

WrapperMap ==
    { <<<<"s", "i", "n", "g", "l", "e", "-", "q", "u", "o", "t", "e">>, "'">>,
      <<<<"s", "i", "n", "g", "l", "e">>, "'">>,
      <<<<"'">>, "'">>,
      <<<<"d", "o", "u", "b", "l", "e", "-", "q", "u", "o", "t", "e">>, "\"">>,
      <<<<"d", "o", "u", "b", "l", "e">>, "\"">>,
      <<<<"\"">>, "\"">>,
      <<<<"p", "a", "r", "e", "n", "s">>, "(">>,
      <<<<"(">>, "(">>,
      <<<<"n", "o", "n", "e">>, "none">> }

DelimiterMap ==
    { <<<<"c", "o", "m", "m", "a">>, ",">>,
      <<<<",">>, ",">>,
      <<<<"s", "e", "m", "i", "c", "o", "l", "o", "n">>, ";">>,
      <<<<";">>, ";">>,
      <<<<"n", "e", "w", "l", "i", "n", "e">>, "NEWLINE">>,
      <<<<"n", "e", "w", "-", "l", "i", "n", "e">>, "NEWLINE">>,
      <<<<"c", "o", "m", "m", "a", "+", "n", "e", "w", "l", "i", "n", "e">>, "COMMA_NEWLINE">>,
      <<<<"c", "o", "m", "m", "a", "+", "n", "e", "w", "-", "l", "i", "n", "e">>, "COMMA_NEWLINE">>,
      <<<<"p", "i", "p", "e">>, "|">>,
      <<<<"|">>, "|">> }

CaseMap ==
    { <<<<"u", "p", "p", "e", "r">>, "upper">>,
      <<<<"u", "p", "p", "e", "r", "c", "a", "s", "e">>, "upper">>,
      <<<<"l", "o", "w", "e", "r">>, "lower">>,
      <<<<"l", "o", "w", "e", "r", "c", "a", "s", "e">>, "lower">>,
      <<<<"n", "o", "n", "e">>, "none">> }

\* resolveWrapper: "ok" is false where the function reports and exits
ResolveWrapper(value) ==
    LET resolved == Lookup(WrapperMap, ToLowerCase(value))
    IN  IF resolved = "undefined"
        THEN [ok |-> FALSE, value |-> resolved]
        ELSE [ok |-> TRUE, value |-> resolved]

ResolveDelimiter(value) ==
    LET resolved == Lookup(DelimiterMap, ToLowerCase(value))
    IN  IF resolved # "undefined"
        THEN [delimiter |-> resolved, custom |-> <<>>]
        ELSE [delimiter |-> "custom", custom |-> value]

ResolveCase(value) ==
    LET resolved == Lookup(CaseMap, ToLowerCase(value))
    IN  IF resolved = "undefined"
        THEN [ok |-> FALSE, value |-> resolved]
        ELSE [ok |-> TRUE, value |-> resolved]

\* the opts record parseArgs starts from; filePath null (or '', which main
\* treats alike) is the empty sequence
DefaultCliOptions ==
    [filePath |-> <<>>, wrapper |-> DEFAULT_WRAPPER,
     delimiter |-> DEFAULT_DELIMITER, customDelimiter |-> <<>>,
     caseMode |-> DEFAULT_CASE, dedup |-> DEFAULT_DEDUP, trim |-> DEFAULT_TRIM]

\* the outcome of parseArgs: it returns opts (exit "running") or ends the
\* process with a status, having printed to stdout or stderr
Returned(opts) == [exit |-> "running", opts |-> opts, out |-> <<>>, err |-> <<>>]
Exited(status, out, err) ==
    [exit |-> status, opts |-> DefaultCliOptions, out |-> out, err |-> err]

\* !args[i]: no such argument, or an empty one
Missing(args, i) == i > Len(args) \/ args[i] = <<>>

\* the while loop of parseArgs from index i on
RECURSIVE ParseArgsFrom(_, _, _)
ParseArgsFrom(args, i, opts) ==
    IF i > Len(args) THEN Returned(opts)
    ELSE LET arg == args[i] IN
      IF arg \in {<<"-", "h">>, <<"-", "-", "h", "e", "l", "p">>}
      THEN Exited("0", HelpText, <<>>)
      ELSE IF arg \in {<<"-", "w">>, <<"-", "-", "w", "r", "a", "p", "p", "e", "r">>}
      THEN IF Missing(args, i + 1)
           THEN Exited("1", <<>>, <<"Error: --wrapper requires a value">>)
           ELSE LET r == ResolveWrapper(args[i + 1]) IN
                IF ~r.ok THEN Exited("1", <<>>, <<"Error: Invalid wrapper">>)
                ELSE ParseArgsFrom(args, i + 2, [opts EXCEPT !.wrapper = r.value])
      ELSE IF arg \in {<<"-", "d">>, <<"-", "-", "d", "e", "l", "i", "m", "i", "t", "e", "r">>}
      THEN IF Missing(args, i + 1)
           THEN Exited("1", <<>>, <<"Error: --delimiter requires a value">>)
           ELSE LET r == ResolveDelimiter(args[i + 1]) IN
                ParseArgsFrom(args, i + 2,
                    [opts EXCEPT !.delimiter = r.delimiter,
                                 !.customDelimiter = r.custom])
      ELSE IF arg \in {<<"-", "c">>, <<"-", "-", "c", "a", "s", "e">>}
      THEN IF Missing(args, i + 1)
           THEN Exited("1", <<>>, <<"Error: --case requires a value">>)
           ELSE LET r == ResolveCase(args[i + 1]) IN
                IF ~r.ok THEN Exited("1", <<>>, <<"Error: Invalid case mode">>)
                ELSE ParseArgsFrom(args, i + 2, [opts EXCEPT !.caseMode = r.value])
      ELSE IF arg = <<"-", "-", "n", "o", "-", "d", "e", "d", "u", "p">>
      THEN ParseArgsFrom(args, i + 1, [opts EXCEPT !.dedup = FALSE])
      ELSE IF arg = <<"-", "-", "n", "o", "-", "t", "r", "i", "m">>
      THEN ParseArgsFrom(args, i + 1, [opts EXCEPT !.trim = FALSE])
      ELSE IF ~StartsWith(arg, "-")
      THEN ParseArgsFrom(args, i + 1, [opts EXCEPT !.filePath = arg])
      ELSE Exited("1", <<>>, <<"Error: Unknown flag">>)

ParseArgs(args) == ParseArgsFrom(args, 1, DefaultCliOptions)

\* arguments a user may type: flags, names in either case, unknown names,
\* the names every object inherits, a custom separator, a file, an empty one
ArgPool ==
    { <<"-", "w">>, <<"-", "-", "w", "r", "a", "p", "p", "e", "r">>,
      <<"-", "d">>, <<"-", "c">>,
      <<"-", "-", "n", "o", "-", "d", "e", "d", "u", "p">>,
      <<"-", "-", "n", "o", "-", "t", "r", "i", "m">>, <<"-", "h">>,
      <<"-", "x">>, <<"P", "a", "r", "e", "n", "s">>,
      <<"n", "o", "n", "e">>, <<"b", "o", "g", "u", "s">>,
      <<"c", "o", "n", "s", "t", "r", "u", "c", "t", "o", "r">>,
      <<"_", "_", "p", "r", "o", "t", "o", "_", "_">>,
      <<"U", "P", "P", "E", "R">>,
      <<"c", "o", "m", "m", "a", "+", "n", "e", "w", "l", "i", "n", "e">>,
      <<"N", "E", "W", "L", "I", "N", "E">>, <<"|">>, <<"|", " ">>,
      <<"f", ".", "t", "x", "t">>, <<>> }

ArgLists == ListsUpTo(ArgPool, MaxArgs)

\* contents of the file or of standard input
CliTexts ==
    { <<>>, <<" ", ",">>, <<"a">>, <<"a", ",", "b">>,
      <<"a", ",", " ", "A", ",", "a">> }

\* main, lines 203-206: no arguments on a terminal prints the help
CliHelpOnTTY ==
    /\ pc = "main"
    /\ argv = <<>> /\ isTTY
    /\ stdout' = HelpText
    /\ exitCode' = "0"
    /\ pc' = "exited"
    /\ UNCHANGED <<text, options, parsed, transformed, output, round, firstOut,
                   argv, isTTY, filePath, stderr, copies, app, upload>>

\* main, line 208: parseArgs returns the options or ends the process
CliParseArgs ==
    /\ pc = "main"
    /\ ~(argv = <<>> /\ isTTY)
    /\ LET r == ParseArgs(argv) IN
         IF r.exit = "running"
         THEN /\ wrapper' = r.opts.wrapper
              /\ delimiter' = r.opts.delimiter
              /\ customDelimiter' = r.opts.customDelimiter
              /\ caseMode' = r.opts.caseMode
              /\ dedup' = r.opts.dedup
              /\ trim' = r.opts.trim
              /\ filePath' = r.opts.filePath
              /\ pc' = "read"
              /\ UNCHANGED <<exitCode, stdout, stderr>>
         ELSE /\ exitCode' = r.exit
              /\ stdout' = r.out
              /\ stderr' = r.err
              /\ pc' = "exited"
              /\ UNCHANGED <<options, filePath>>
    /\ UNCHANGED <<text, parsed, transformed, output, round, firstOut,
                   argv, isTTY, copies, app, upload>>

\* main, lines 211-216: the file or standard input is read to its end
CliRead ==
    /\ pc = "read"
    /\ \E t \in CliTexts : text' = t
    /\ pc' = "start"
    /\ UNCHANGED <<options, parsed, transformed, output, round, firstOut,
                   cli, copies, app, upload>>

\* readFromFile's catch, or a stream error caught at the end of the file
CliReadFails ==
    /\ pc = "read"
    /\ stderr' = <<"Error: Could not read">>
    /\ exitCode' = "1"
    /\ pc' = "exited"
    /\ UNCHANGED <<text, options, parsed, transformed, output, round, firstOut,
                   argv, isTTY, filePath, stdout, copies, app, upload>>

\* main, lines 221-223: nothing parsed, the process ends quietly
CliExitEmpty ==
    /\ pc = "parsed"
    /\ Len(parsed) = 0
    /\ exitCode' = "0"
    /\ pc' = "exited"
    /\ UNCHANGED <<text, options, parsed, transformed, output, round, firstOut,
                   argv, isTTY, filePath, stdout, stderr, copies, app, upload>>

\* main, line 225
CliTransform ==
    /\ Len(parsed) # 0
    /\ TransformStep

\* variant: the output is written without the newline after it
CliWrite_NoNewline ==
    /\ pc = "joined"
    /\ stdout' = output
    /\ exitCode' = "0"
    /\ pc' = "exited"
    /\ UNCHANGED <<text, options, parsed, transformed, output, round, firstOut,
                   argv, isTTY, filePath, stderr, copies, app, upload>>

\* main, line 229, and the normal end of the process
CliWrite ==
    /\ pc = "joined"
    /\ stdout' = output \o <<"\n">>
    /\ exitCode' = "0"
    /\ pc' = "exited"
    /\ UNCHANGED <<text, options, parsed, transformed, output, round, firstOut,
                   argv, isTTY, filePath, stderr, copies, app, upload>>

InitCli ==
    /\ pc = "main"
    /\ argv \in ArgLists
    /\ isTTY \in BOOLEAN
    /\ text = <<>>
    /\ DefaultOptions
    /\ filePath = <<>>
    /\ exitCode = "running"
    /\ stdout = <<>>
    /\ stderr = <<>>
    /\ parsed = <<>>
    /\ transformed = <<>>
    /\ output = <<>>
    /\ round = 1
    /\ firstOut = <<>>
    /\ NoCopies
    /\ NoApp
    /\ NoUpload

NextCli ==
    \/ CliHelpOnTTY
    \/ CliParseArgs
    \/ CliRead
    \/ CliReadFails
    \/ ParseStep
    \/ CliExitEmpty
    \/ CliTransform
    \/ JoinStep
    \/ CliWrite

SpecCli == InitCli /\ [][NextCli]_vars

(***************************************************************************)
(* The copies of the pipeline in the two versions of App.tsx.              *)
(***************************************************************************)
\* bound on the length of the text typed into the App
MaxCopyLen == 2

\* first version of App.tsx
App1_parseInput(t) == FilterNonEmpty(StripParts(Split(t)))

\* no trim parameter and no trim stage
App1_transformValues(values, w, dd, cm) ==
    WrapStage(DedupStage(CaseStage(values, cm), dd), w)

\* the separator is chosen first, then one spelled NEWLINE becomes "\n"
App1_joinValues(values, d, custom) ==
    LET delim == IF d = "custom" THEN custom ELSE KindString(d)
    IN  Join(values, IF delim = KindString("NEWLINE") THEN <<"\n">> ELSE delim)

\* second version of App.tsx
App2_parseInput(t) == FilterNonEmpty(StripParts(Split(t)))

App2_transformValues(values, w, dd, cm, tr) ==
    WrapStage(DedupStage(CaseStage(TrimStage(values, tr), cm), dd), w)

App2_joinValues(values, d, custom) ==
    IF d = "NEWLINE" THEN Join(values, <<"\n">>)
    ELSE IF d = "COMMA_NEWLINE" THEN Join(values, <<",", "\n">>)
    ELSE Join(values, IF d = "custom" THEN custom ELSE KindString(d))

\* the render of the first App: output is computed from the state
App1_Render ==
    /\ pc = "joined"
    /\ ~outputV1.done
    /\ outputV1' =
          [done |-> TRUE,
           value |-> App1_joinValues(
                         App1_transformValues(App1_parseInput(text), wrapper,
                                              dedup, caseMode),
                         delimiter, customDelimiter)]
    /\ UNCHANGED <<pc, text, options, parsed, transformed, output, round,
                   firstOut, cli, outputV2, app, upload>>

\* the render of the second App
App2_Render ==
    /\ pc = "joined"
    /\ ~outputV2.done
    /\ outputV2' =
          [done |-> TRUE,
           value |-> App2_joinValues(
                         App2_transformValues(App2_parseInput(text), wrapper,
                                              dedup, caseMode, trim),
                         delimiter, customDelimiter)]
    /\ UNCHANGED <<pc, text, options, parsed, transformed, output, round,
                   firstOut, cli, outputV1, app, upload>>

CopyTexts == StringsUpTo(PipeAlphabet, MaxCopyLen) \cup ExampleTexts

\* the options every copy can express: trim on, no comma-then-newline kind
InitCopies ==
    /\ pc = "start"
    /\ text \in CopyTexts
    /\ wrapper \in Wrapper
    /\ delimiter \in Delimiter \ {"COMMA_NEWLINE"}
    /\ customDelimiter \in (IF delimiter = "custom" THEN CustomPool ELSE {<<>>})
    /\ caseMode \in CaseMode
    /\ dedup \in BOOLEAN
    /\ trim = TRUE
    /\ parsed = <<>>
    /\ transformed = <<>>
    /\ output = <<>>
    /\ round = 1
    /\ firstOut = <<>>
    /\ NoCli
    /\ NoCopies
    /\ NoApp
    /\ NoUpload

NextCopies ==
    \/ ParseStep
    \/ TransformStep
    \/ JoinStep
    \/ App1_Render
    \/ App2_Render

SpecCopies == InitCopies /\ [][NextCopies]_vars

(***************************************************************************)
(* The second version of the App: its state, its controls, the copied      *)
(* indicator and the Reset button.                                         *)
(***************************************************************************)
\* bound on the number of timers pending at once
MaxTimers == 2

\* texts typed into the textarea
AppTexts == { <<>>, <<" ">>, <<"a", ",", "b">> }

\* strings typed into the custom delimiter field
AppCustoms == { <<>>, <<"x">> }

\* what the App leaves alone
notApp == <<pc, parsed, transformed, output, round, firstOut, cli, copies,
            upload>>

\* the output the render computes from the state
AppOutput ==
    App2_joinValues(
        App2_transformValues(App2_parseInput(text), wrapper, dedup, caseMode,
                             trim),
        delimiter, customDelimiter)

isDirty ==
    \/ text # <<>>
    \/ wrapper # DEFAULT_WRAPPER
    \/ delimiter # DEFAULT_DELIMITER
    \/ dedup # DEFAULT_DEDUP
    \/ trim # DEFAULT_TRIM
    \/ caseMode # DEFAULT_CASE

SetInput ==
    /\ pc = "app"
    /\ \E v \in AppTexts : text' = v
    /\ UNCHANGED <<options, app, notApp>>

SetWrapper ==
    /\ pc = "app"
    /\ \E w \in Wrapper : wrapper' = w
    /\ UNCHANGED <<text, delimiter, customDelimiter, caseMode, dedup, trim,
                   app, notApp>>

SetDelimiter ==
    /\ pc = "app"
    /\ \E d \in Delimiter : delimiter' = d
    /\ UNCHANGED <<text, wrapper, customDelimiter, caseMode, dedup, trim,
                   app, notApp>>

\* the field is rendered only while the custom kind is selected
SetCustomDelimiter ==
    /\ pc = "app"
    /\ delimiter = "custom"
    /\ \E c \in AppCustoms : customDelimiter' = c
    /\ UNCHANGED <<text, wrapper, delimiter, caseMode, dedup, trim,
                   app, notApp>>

SetCaseMode ==
    /\ pc = "app"
    /\ \E c \in CaseMode : caseMode' = c
    /\ UNCHANGED <<text, wrapper, delimiter, customDelimiter, dedup, trim,
                   app, notApp>>

\* the toggle passes the negation of the current value
SetDedup ==
    /\ pc = "app"
    /\ dedup' = ~dedup
    /\ UNCHANGED <<text, wrapper, delimiter, customDelimiter, caseMode, trim,
                   app, notApp>>

SetTrim ==
    /\ pc = "app"
    /\ trim' = ~trim
    /\ UNCHANGED <<text, wrapper, delimiter, customDelimiter, caseMode, dedup,
                   app, notApp>>

\* handleCopy returns at once on an empty output; else the text goes to the
\* clipboard, copied is set and a timer is started that nobody cancels
handleCopy ==
    /\ pc = "app"
    /\ AppOutput # <<>>
    /\ timers < MaxTimers
    /\ copied' = TRUE
    /\ timers' = timers + 1
    /\ UNCHANGED <<text, options, notApp>>

\* Ctrl+C or Cmd+C outside the textarea, with an output to copy
handleKeyDown ==
    /\ pc = "app"
    /\ AppOutput # <<>>
    /\ timers < MaxTimers
    /\ copied' = TRUE
    /\ timers' = timers + 1
    /\ UNCHANGED <<text, options, notApp>>

\* the callback of setTimeout; the timers have one delay, so the oldest
\* pending one fires
TimerFires ==
    /\ pc = "app"
    /\ timers > 0
    /\ copied' = FALSE
    /\ timers' = timers - 1
    /\ UNCHANGED <<text, options, notApp>>

\* the Reset button is disabled unless isDirty
handleReset ==
    /\ pc = "app"
    /\ isDirty
    /\ text' = <<>>
    /\ wrapper' = DEFAULT_WRAPPER
    /\ delimiter' = DEFAULT_DELIMITER
    /\ customDelimiter' = <<>>
    /\ dedup' = DEFAULT_DEDUP
    /\ trim' = DEFAULT_TRIM
    /\ caseMode' = DEFAULT_CASE
    /\ copied' = FALSE
    /\ UNCHANGED <<timers, notApp>>

InitApp ==
    /\ pc = "app"
    /\ text = <<>>
    /\ DefaultOptions
    /\ parsed = <<>>
    /\ transformed = <<>>
    /\ output = <<>>
    /\ round = 1
    /\ firstOut = <<>>
    /\ NoCli
    /\ NoCopies
    /\ NoApp
    /\ NoUpload

NextApp ==
    \/ SetInput
    \/ SetWrapper
    \/ SetDelimiter
    \/ SetCustomDelimiter
    \/ SetCaseMode
    \/ SetDedup
    \/ SetTrim
    \/ handleCopy
    \/ handleKeyDown
    \/ TimerFires
    \/ handleReset

SpecApp == InitApp /\ [][NextApp]_vars

(***************************************************************************)
(* The FileUpload component: the drop zone, the checks of handleFile and   *)
(* the reads it starts.                                                    *)
(***************************************************************************)
\* bound on the drag counter, in either direction
MaxDrag == 2

\* bound on the reads in progress and delivered together
MaxFiles == 2

ACCEPTED_EXTENSIONS ==
    { <<".", "t", "x", "t">>, <<".", "c", "s", "v">>, <<".", "j", "s", "o", "n">>,
      <<".", "t", "s", "v">>, <<".", "x", "m", "l">> }

MAX_FILE_SIZE == 5 * 1024 * 1024

\* name.lastIndexOf(c), counted from 1; 0 where JavaScript gives -1
LastIndexOf(name, c) ==
    IF \E i \in 1..Len(name) : name[i] = c
    THEN CHOOSE i \in 1..Len(name) :
             name[i] = c /\ \A j \in (i + 1)..Len(name) : name[j] # c
    ELSE 0

\* variant: the extension is compared as it is written
getExtension_CaseSensitive(name) ==
    LET idx == LastIndexOf(name, ".")
    IN  IF idx >= 1 THEN SubSeq(name, idx, Len(name)) ELSE <<>>

getExtension(name) ==
    LET idx == LastIndexOf(name, ".")
    IN  IF idx >= 1 THEN ToLowerCase(SubSeq(name, idx, Len(name))) ELSE <<>>

\* names of files a user may drop or choose
FileNames ==
    { <<"a", ".", "t", "x", "t">>, <<"A", ".", "T", "X", "T">>,
      <<"a", ".", "c", "s", "v">>, <<"a", ".", "j", "s", "o", "n">>,
      <<"a", ".", "t", "s", "v">>, <<"a", ".", "X", "m", "l">>,
      <<"a", ".", "p", "d", "f">>, <<"t", "x", "t">>,
      <<"a", ".", "t", "x", "t", ".", "e", "x", "e">>, <<".", "x", "m", "l">> }

FileSizes == {0, MAX_FILE_SIZE, MAX_FILE_SIZE + 1}

Files == [name : FileNames, size : FileSizes]

\* the handler that ran last and the file it was given
Event(handler) == [handler |-> handler, withFile |-> FALSE, name |-> <<>>, size |-> 0]
EventWith(handler, file) ==
    [handler |-> handler, withFile |-> TRUE, name |-> file.name, size |-> file.size]

\* handleFile: the error is cleared, the extension and the size are checked,
\* and only then a read is started
handleFile(file) ==
    LET ext == getExtension(file.name) IN
    IF ext \notin ACCEPTED_EXTENSIONS
    THEN /\ error' = "Unsupported format"
         /\ UNCHANGED <<loading, reads>>
    ELSE IF file.size > MAX_FILE_SIZE
    THEN /\ error' = "File too large. Max 5MB."
         /\ UNCHANGED <<loading, reads>>
    ELSE /\ error' = "null"
         /\ loading' = TRUE
         /\ reads' = reads + 1

\* room for one more read within the bound
RoomFor(file) ==
    (getExtension(file.name) \in ACCEPTED_EXTENSIONS /\ file.size <= MAX_FILE_SIZE)
        => reads + delivered < MaxFiles

\* what the component leaves alone
notUpload == <<pc, text, options, parsed, transformed, output, round,
               firstOut, cli, copies, app>>

handleDragEnter ==
    /\ pc = "upload"
    /\ dragCounter < MaxDrag
    /\ dragCounter' = dragCounter + 1
    /\ isDragging' = TRUE
    /\ event' = Event("dragenter")
    /\ UNCHANGED <<error, loading, reads, delivered, notUpload>>

\* variant: the highlight is never taken back on leaving
handleDragLeave_NoClear ==
    /\ pc = "upload"
    /\ dragCounter > -MaxDrag
    /\ dragCounter' = dragCounter - 1
    /\ event' = Event("dragleave")
    /\ UNCHANGED <<isDragging, error, loading, reads, delivered, notUpload>>

handleDragLeave ==
    /\ pc = "upload"
    /\ dragCounter > -MaxDrag
    /\ dragCounter' = dragCounter - 1
    /\ isDragging' = (IF dragCounter' = 0 THEN FALSE ELSE isDragging)
    /\ event' = Event("dragleave")
    /\ UNCHANGED <<error, loading, reads, delivered, notUpload>>

handleDragOver ==
    /\ pc = "upload"
    /\ event' = Event("dragover")
    /\ UNCHANGED <<isDragging, dragCounter, error, loading, reads, delivered,
                   notUpload>>

\* a drop carries a file or none
handleDrop ==
    /\ pc = "upload"
    /\ isDragging' = FALSE
    /\ dragCounter' = 0
    /\ \/ /\ event' = Event("drop")
          /\ UNCHANGED <<error, loading, reads>>
       \/ \E file \in Files :
             /\ RoomFor(file)
             /\ handleFile(file)
             /\ event' = EventWith("drop", file)
    /\ UNCHANGED <<delivered, notUpload>>

\* a file chosen in the dialog of the hidden input
handleInputChange ==
    /\ pc = "upload"
    /\ \E file \in Files :
          /\ RoomFor(file)
          /\ handleFile(file)
          /\ event' = EventWith("change", file)
    /\ UNCHANGED <<isDragging, dragCounter, delivered, notUpload>>

\* reader.onload: the processed text goes to onFileContent
ReaderOnLoad ==
    /\ pc = "upload"
    /\ reads > 0
    /\ reads' = reads - 1
    /\ delivered' = delivered + 1
    /\ loading' = FALSE
    /\ event' = Event("load")
    /\ UNCHANGED <<isDragging, dragCounter, error, notUpload>>

\* reader.onerror
ReaderOnError ==
    /\ pc = "upload"
    /\ reads > 0
    /\ reads' = reads - 1
    /\ error' = "Error reading file."
    /\ loading' = FALSE
    /\ event' = Event("error")
    /\ UNCHANGED <<isDragging, dragCounter, delivered, notUpload>>

InitUpload ==
    /\ pc = "upload"
    /\ text = <<>>
    /\ DefaultOptions
    /\ parsed = <<>>
    /\ transformed = <<>>
    /\ output = <<>>
    /\ round = 1
    /\ firstOut = <<>>
    /\ NoCli
    /\ NoCopies
    /\ NoApp
    /\ isDragging = FALSE
    /\ dragCounter = 0
    /\ error = "null"
    /\ loading = FALSE
    /\ reads = 0
    /\ delivered = 0
    /\ event = Event("none")

NextUpload ==
    \/ handleDragEnter
    \/ handleDragLeave
    \/ handleDragOver
    \/ handleDrop
    \/ handleInputChange
    \/ ReaderOnLoad
    \/ ReaderOnError

SpecUpload == InitUpload /\ [][NextUpload]_vars

(***************************************************************************)
(* Properties of parseInput (checked under SpecParse).                     *)
(***************************************************************************)
\* the structural delimiters and the whitespace, as the documentation lists them
StructuralChars == {",", ";", "\n", "|"}
BlankChars == {" ", "\t", "\n", "\r"}

\* C3: every element parseInput returns is non-empty and neither starts nor
\* ends with whitespace.
C3_ParsedElementsTrimmedNonEmpty ==
    pc = "parsed" =>
        \A i \in 1..Len(parsed) :
            /\ Len(parsed[i]) > 0
            /\ parsed[i][1] \notin BlankChars
            /\ parsed[i][Len(parsed[i])] \notin BlankChars

\* a wrapped fragment with blanks inside the wrapping has been parsed
C3_Witness ==
    /\ pc = "parsed"
    /\ text = <<"\"", " ", "a", "\"">>
    /\ parsed = << <<"a">> >>

\* the maximal delimiter-free stretches of t, by their first positions
FragmentStarts(t) ==
    {i \in 1..Len(t) : t[i] \notin StructuralChars
                       /\ (i = 1 \/ t[i - 1] \in StructuralChars)}

FragmentEnd(t, i) ==
    CHOOSE j \in i..Len(t) :
        /\ \A k \in i..j : t[k] \notin StructuralChars
        /\ (j = Len(t) \/ t[j + 1] \in StructuralChars)

NthStart(t, n) ==
    CHOOSE i \in FragmentStarts(t) :
        Cardinality({j \in FragmentStarts(t) : j < i}) = n - 1

\* the fragments between delimiter runs, left to right
Fragments(t) ==
    [n \in 1..Cardinality(FragmentStarts(t)) |->
        SubSeq(t, NthStart(t, n), FragmentEnd(t, NthStart(t, n)))]

\* C4: parseInput splits at every maximal run of , ; newline |: the result is
\* the stripped non-empty fragments between the runs, in input order; no
\* element is empty or holds a delimiter; "a,,;;\n\nb" parses to [a, b].
C4_SplitOnDelimiterRuns ==
    pc = "parsed" =>
        /\ parsed = FilterNonEmpty([n \in 1..Len(Fragments(text)) |->
                                        StripPart(Fragments(text)[n])])
        /\ \A i \in 1..Len(parsed) :
              /\ parsed[i] # <<>>
              /\ \A k \in 1..Len(parsed[i]) : parsed[i][k] \notin StructuralChars
        /\ (text = <<"a", ",", ",", ";", ";", "\n", "\n", "b">>
               => parsed = << <<"a">>, <<"b">> >>)

\* a mixed run of delimiters has acted as a single split point
C4_Witness ==
    /\ pc = "parsed"
    /\ text = <<"a", ",", ",", ";", ";", "\n", "\n", "b">>
    /\ parsed = << <<"a">>, <<"b">> >>

\* a trimmed fragment whose two ends are one of the three wrapping pairs
EndsMatch(t) ==
    /\ Len(t) > 0
    /\ <<t[1], t[Len(t)]>> \in {<<"\"", "\"">>, <<"'", "'">>, <<"(", ")">>}

\* one layer removed when the ends match, the fragment untouched otherwise
OneLayerStripped(fragment) ==
    LET t == Trim(fragment)
    IN  IF EndsMatch(t) THEN Trim(SubSeq(t, 2, Len(t) - 1)) ELSE t

\* C5: each fragment loses exactly one layer of wrapping iff its trimmed form
\* starts and ends with a matching pair, is trimmed again, and is never
\* stripped twice; a fragment with mismatched ends is returned untouched.
C5_OneLayerOfWrappingStripped ==
    pc = "parsed" =>
        /\ parsed = FilterNonEmpty([n \in 1..Len(Fragments(text)) |->
                                        OneLayerStripped(Fragments(text)[n])])
        /\ (text = <<"\"", "'", "v", "'", "\"">>
               => parsed = << <<"'", "v", "'">> >>)
        /\ (text = <<"(", "m", "i", "s", "\"">> => parsed = <<text>>)

\* a doubly wrapped fragment has kept its inner layer
C5_Witness ==
    /\ pc = "parsed"
    /\ text = <<"\"", "'", "v", "'", "\"">>
    /\ parsed = << <<"'", "v", "'">> >>

(***************************************************************************)
(* Properties of transformValues (checked under SpecTransform).            *)
(***************************************************************************)
\* a value as deduplication sees it: trimmed when trim is on, case-converted
Normalised(v) ==
    LET t == IF trim THEN Trim(v) ELSE v
    IN  CASE caseMode = "upper" -> ToUpperCase(t)
          [] caseMode = "lower" -> ToLowerCase(t)
          [] OTHER -> t

\* a value between the prefix and suffix of the chosen wrapper
Wrapped(v) ==
    CASE wrapper = "none" -> v
      [] wrapper = "(" -> <<"(">> \o v \o <<")">>
      [] OTHER -> <<wrapper>> \o v \o <<wrapper>>

Transformed == pc \in {"transformed", "joined"}

FooExample == <<"F","o","o", ",", " ", "f","o","o", ",", " ", "F","O","O">>

\* C2: the stages run in the order trim, case, dedup, wrap: with dedup on the
\* output holds one wrapped element per value as it reads after trim and case
\* conversion, so values differing only in letter case collapse under upper
\* or lower; "Foo, foo, FOO" with lower, dedup, no wrapper, comma gives "foo".
C2_DedupAfterTrimAndCase ==
    /\ (Transformed /\ round = 1 /\ dedup) =>
          /\ Len(transformed) =
                Cardinality({Normalised(parsed[i]) : i \in 1..Len(parsed)})
          /\ \A i \in 1..Len(parsed) : \E k \in 1..Len(transformed) :
                transformed[k] = Wrapped(Normalised(parsed[i]))
          /\ caseMode # "none" =>
                \A k, l \in 1..Len(transformed) :
                    ToLowerCase(transformed[k]) = ToLowerCase(transformed[l])
                        => k = l
    /\ (pc = "joined" /\ text = FooExample /\ caseMode = "lower" /\ dedup
            /\ wrapper = "none" /\ delimiter = "," /\ trim)
          => output = <<"f", "o", "o">>

\* the documented example has been formatted to a single lower-case value
C2_Witness ==
    /\ pc = "joined"
    /\ text = FooExample
    /\ parsed = << <<"F","o","o">>, <<"f","o","o">>, <<"F","O","O">> >>
    /\ caseMode = "lower" /\ dedup /\ wrapper = "none" /\ trim
    /\ output = <<"f", "o", "o">>

\* the positions of the input whose normalised value has not occurred before
FirstOccurrences ==
    {i \in 1..Len(parsed) :
        \A j \in 1..(i - 1) : Normalised(parsed[j]) # Normalised(parsed[i])}

NthFirstOccurrence(n) ==
    CHOOSE i \in FirstOccurrences :
        Cardinality({j \in FirstOccurrences : j < i}) = n - 1

\* C7: with dedup on, the output keeps exactly the first occurrence of each
\* value (compared after trim and case conversion): no two elements are
\* equal, every distinct value is there, in order of first occurrence.
C7_DedupKeepsFirstOccurrences ==
    (Transformed /\ round = 1 /\ dedup) =>
        /\ Len(transformed) = Cardinality(FirstOccurrences)
        /\ \A n \in 1..Len(transformed) :
              transformed[n] = Wrapped(Normalised(parsed[NthFirstOccurrence(n)]))
        /\ \A k, l \in 1..Len(transformed) :
              transformed[k] = transformed[l] => k = l

\* a later duplicate has been removed from between two kept values
C7_Witness ==
    /\ pc = "transformed"
    /\ dedup /\ caseMode = "none" /\ wrapper = "none" /\ trim
    /\ parsed = << <<"a">>, <<"b", " ">>, <<" ", "a">> >>
    /\ transformed = << <<"a">>, <<"b">> >>

\* C8: with dedup off the output has the length of the input and its i-th
\* element is the (trimmed, case-converted, wrapped) i-th input element; with
\* dedup on the output is never longer than the input.
C8_LengthAndOrderPreserved ==
    (Transformed /\ round = 1) =>
        /\ ~dedup =>
              /\ Len(transformed) = Len(parsed)
              /\ \A i \in 1..Len(parsed) :
                    transformed[i] = Wrapped(Normalised(parsed[i]))
        /\ dedup => Len(transformed) <= Len(parsed)

\* a list with duplicates has kept all its elements with dedup off
C8_Witness ==
    /\ pc = "transformed"
    /\ ~dedup /\ caseMode = "upper" /\ wrapper = "(" /\ trim
    /\ parsed = << <<"a">>, <<"A">>, <<" ", "a">> >>
    /\ transformed = << <<"(", "A", ")">>, <<"(", "A", ")">>, <<"(", "A", ")">> >>

(***************************************************************************)
(* Properties of joinValues and of the whole pipeline.                     *)
(***************************************************************************)
\* where the i-th element starts in a string made of vals with sep between
RECURSIVE Offset(_, _, _)
Offset(vals, sep, i) ==
    IF i = 1 THEN 1
    ELSE Offset(vals, sep, i - 1) + Len(vals[i - 1]) + Len(sep)

\* out is the elements of vals in order with sep between each adjacent pair
JoinedWith(out, vals, sep) ==
    IF vals = <<>> THEN out = <<>>
    ELSE LET n == Len(vals)
             at(i) == Offset(vals, sep, i)
         IN  /\ Len(out) = at(n) + Len(vals[n]) - 1
             /\ \A i \in 1..n :
                   SubSeq(out, at(i), at(i) + Len(vals[i]) - 1) = vals[i]
             /\ \A i \in 1..(n - 1) :
                   SubSeq(out, at(i) + Len(vals[i]), at(i + 1) - 1) = sep

\* C6: no stage fails: for every input and options record each stage
\* returns a list of strings (a string for the join), never anything else;
\* the empty text, a blank text and a text of delimiters parse to the empty
\* list and format to the empty string, whatever the options.
C6_NoFailureAndEmptyInputs ==
    LET IsString(x) == DOMAIN x = 1..Len(x)
        IsList(xs) == DOMAIN xs = 1..Len(xs) /\ \A i \in 1..Len(xs) : IsString(xs[i])
        blank == \A k \in 1..Len(text) : text[k] \in BlankChars
        delims == \A k \in 1..Len(text) : text[k] \in StructuralChars
    IN  /\ pc \in {"start", "parsed", "transformed", "joined"}
        /\ pc # "start" => IsList(parsed)
        /\ pc \in {"transformed", "joined"} => IsList(transformed)
        /\ pc = "joined" => IsString(output)
        /\ (pc # "start" /\ (blank \/ delims)) => parsed = <<>>
        /\ (pc = "joined" /\ (blank \/ delims)) => output = <<>>

\* a blank text has been formatted, with a wrapper chosen, to the empty string
C6_Witness ==
    /\ pc = "joined"
    /\ text = <<" ", "\n", " ">>
    /\ wrapper = "'" /\ delimiter = "custom"
    /\ output = <<>>

\* C9: with the custom kind the separator is the customDelimiter string as
\* given, whatever it holds (several characters, structural delimiters, the
\* name of a kind); "a,b,c" with custom " | " and no wrapper is "a | b | c".
C9_CustomDelimiterVerbatim ==
    (pc = "joined" /\ delimiter = "custom") =>
        /\ JoinedWith(output, transformed, customDelimiter)
        /\ (text = <<"a", ",", "b", ",", "c">> /\ wrapper = "none"
                /\ customDelimiter = <<" ", "|", " ">> /\ caseMode = "none")
              => output = <<"a", " ", "|", " ", "b", " ", "|", " ", "c">>

\* a custom delimiter spelled like a kind name has been used as it is
C9_Witness ==
    /\ pc = "joined"
    /\ delimiter = "custom"
    /\ customDelimiter = <<"N","E","W","L","I","N","E">>
    /\ transformed = << <<"a">>, <<"b">> >>
    /\ output = <<"a", "N","E","W","L","I","N","E", "b">>

\* the separator the documentation gives for each fixed kind
FixedSeparator(kind) ==
    CASE kind = "," -> <<",">>
      [] kind = ";" -> <<";">>
      [] kind = "NEWLINE" -> <<"\n">>
      [] kind = "COMMA_NEWLINE" -> <<",", "\n">>
      [] kind = "|" -> <<"|">>

\* C10: comma, semicolon, newline, comma-then-newline and pipe join with
\* "," ";" "\n" ",\n" "|"; the customDelimiter argument changes nothing.
C10_FixedKindsIgnoreCustom ==
    (pc = "joined" /\ delimiter # "custom") =>
        JoinedWith(output, transformed, FixedSeparator(delimiter))

\* comma-then-newline has joined two values although a custom string was given
C10_Witness ==
    /\ pc = "joined"
    /\ delimiter = "COMMA_NEWLINE"
    /\ customDelimiter = <<" ", "|", " ">>
    /\ transformed = << <<"a">>, <<"b">> >>
    /\ output = <<"a", ",", "\n", "b">>

(***************************************************************************)
(* Formatting the output again (checked under SpecIdem).                   *)
(***************************************************************************)
SetOf(xs) == {xs[i] : i \in 1..Len(xs)}

SecondRunDone == pc = "transformed" /\ round = 2

\* the separator the options stand for
Separator ==
    IF delimiter = "custom" THEN customDelimiter ELSE FixedSeparator(delimiter)

\* a separator the parser reads back as one split point and nothing else
SeparatorIsStructural ==
    /\ \A k \in 1..Len(Separator) : Separator[k] \in StructuralChars \cup BlankChars
    /\ \E k \in 1..Len(Separator) : Separator[k] \in StructuralChars

\* C1 as stated: with dedup on, the second run returns the same set of
\* values as the first, and as many.
C1_Original ==
    (SecondRunDone /\ dedup) =>
        /\ SetOf(transformed) = SetOf(firstOut)
        /\ Len(transformed) = Len(firstOut)

\* C1 (amended): with dedup on, a separator made of whitespace and
\* structural delimiters with at least one delimiter, and a wrapper other
\* than none (or a first output none of whose elements starts and ends with
\* a matching wrapper pair), the second run returns the same set of values
\* as the first, and as many.
C1_IdempotentWhenReadBack ==
    (/\ SecondRunDone
     /\ dedup
     /\ SeparatorIsStructural
     /\ (wrapper # "none" \/ \A i \in 1..Len(firstOut) : ~EndsMatch(firstOut[i])))
    => /\ SetOf(transformed) = SetOf(firstOut)
       /\ Len(transformed) = Len(firstOut)

\* two parenthesised values joined by comma and newline have been read back
C1_Witness ==
    /\ SecondRunDone
    /\ wrapper = "(" /\ delimiter = "COMMA_NEWLINE"
    /\ firstOut = << <<"(", "a", " ", "b", ")">>, <<"(", "'", "a", "'", ")">> >>
    /\ transformed = firstOut

(***************************************************************************)
(* Further properties of joinValues, transformValues and the pipeline.     *)
(***************************************************************************)
RECURSIVE TotalLen(_)
TotalLen(xs) == IF xs = <<>> THEN 0 ELSE Len(Head(xs)) + TotalLen(Tail(xs))

\* C11: joinValues returns the elements in order with the separator between
\* adjacent elements only: n >= 1 elements take n - 1 separators, none before
\* the first or after the last; one element is returned unchanged; the empty
\* list gives the empty string.
C11_SeparatorsOnlyBetween ==
    pc = "joined" =>
        LET n == Len(transformed)
        IN  /\ n = 0 => output = <<>>
            /\ n = 1 => output = transformed[1]
            /\ n >= 1 =>
                  /\ Len(output) = TotalLen(transformed) + (n - 1) * Len(Separator)
                  /\ SubSeq(output, 1, Len(transformed[1])) = transformed[1]
                  /\ SubSeq(output, Len(output) - Len(transformed[n]) + 1,
                            Len(output)) = transformed[n]
                  /\ JoinedWith(output, transformed, Separator)

\* three elements have been joined with two separators
C11_Witness ==
    /\ pc = "joined"
    /\ delimiter = ";"
    /\ transformed = << <<"a">>, <<"b">>, <<"'", "a", "'">> >>
    /\ output = <<"a", ";", "b", ";", "'", "a", "'">>

\* C12: the string the pipeline returns never ends with a newline.
C12_NoTrailingNewline ==
    pc = "joined" => (output = <<>> \/ output[Len(output)] # "\n")

\* a text ending in a newline has been formatted with the newline kind
C12_Witness ==
    /\ pc = "joined"
    /\ text = <<"a", " ", "\n">>
    /\ delimiter = "NEWLINE" /\ wrapper = "none" /\ ~trim
    /\ output = <<"a">>

\* a fragment that holds a value and no quote or parenthesis
PlainFragment(f) ==
    /\ \E k \in 1..Len(f) : f[k] \notin BlankChars
    /\ \A k \in 1..Len(f) : f[k] \notin {"\"", "'", "(", ")"}

\* C13 as stated: with trim disabled, the leading and trailing spaces of
\* each value of the input are kept in the output.
C13_SpacesKeptWithoutTrim ==
    (Transformed /\ ~trim) =>
        \A n \in 1..Len(Fragments(text)) :
            PlainFragment(Fragments(text)[n]) =>
                \E k \in 1..Len(transformed) :
                    transformed[k] = Wrapped(Normalised(Fragments(text)[n]))

\* the prefix and the suffix of each wrapper
Prefix == CASE wrapper = "'" -> "'" [] wrapper = "\"" -> "\"" [] wrapper = "(" -> "("
Suffix == CASE wrapper = "'" -> "'" [] wrapper = "\"" -> "\"" [] wrapper = "(" -> ")"

\* t is v between the prefix and the suffix, v copied character by character
IsWrappingOf(t, v) ==
    IF wrapper = "none" THEN t = v
    ELSE /\ Len(t) = Len(v) + 2
         /\ t[1] = Prefix
         /\ t[Len(t)] = Suffix
         /\ \A k \in 1..Len(v) : t[k + 1] = v[k]

\* C14: every returned value is exactly prefix + v + suffix for the chosen
\* wrapper (v itself with wrapper none), v copied unchanged, also when v
\* holds the wrapper character or a delimiter.
C14_WrapIsPrefixValueSuffix ==
    (Transformed /\ round = 1) =>
        /\ \A k \in 1..Len(transformed) : \E i \in 1..Len(parsed) :
              IsWrappingOf(transformed[k], Normalised(parsed[i]))
        /\ \A i \in 1..Len(parsed) : \E k \in 1..Len(transformed) :
              IsWrappingOf(transformed[k], Normalised(parsed[i]))

\* a value holding parentheses, a quote and a comma has been parenthesised
C14_Witness ==
    /\ pc = "transformed"
    /\ wrapper = "(" /\ caseMode = "none"
    /\ parsed = << <<"(", "a", ",", "\"", ")">> >>
    /\ transformed = << <<"(", "(", "a", ",", "\"", ")", ")">> >>

NoOpOptions ==
    /\ wrapper = "none" /\ delimiter = "," /\ caseMode = "none"
    /\ ~dedup /\ ~trim

\* a comma-separated text without quotes, parentheses or other delimiters
PlainCommaText ==
    \A k \in 1..Len(text) : text[k] \notin {"\"", "'", "(", ")", ";", "\n", "|"}

\* the fragments of the text, trimmed, without those left empty
TrimmedFragments ==
    FilterNonEmpty([n \in 1..Len(Fragments(text)) |-> Trim(Fragments(text)[n])])

\* non-empty trimmed tokens separated by single commas
CanonicalCommaList ==
    /\ PlainCommaText
    /\ Len(text) > 0
    /\ text[1] \notin {",", " "} /\ text[Len(text)] \notin {",", " "}
    /\ \A k \in 1..(Len(text) - 1) :
          /\ text[k] = "," => text[k + 1] \notin {",", " "}
          /\ text[k + 1] = "," => text[k] # " "

CarriedValues ==
    [n \in 1..Len(Fragments(text)) |->
        LET t == Trim(Fragments(text)[n]) IN SubSeq(t, 2, Len(t) - 1)]

\* C16: an input whose values are each in double quotes, single quotes or
\* parentheses formats, with the single-quote wrapper and comma, to the bare
\* values each in single quotes joined by commas; "a", 'b', (c) gives
\* 'a','b','c'.
C16_WrappingReplaced ==
    pc = "joined" =>
        /\ JoinedWith(output,
                      [n \in 1..Len(CarriedValues) |->
                          <<"'">> \o CarriedValues[n] \o <<"'">>],
                      <<",">>)
        /\ text = WrappedExample =>
              output = <<"'", "a", "'", ",", "'", "b", "'", ",", "'", "c", "'">>

\* the documented example has been wrapped anew
C16_Witness ==
    /\ pc = "joined"
    /\ text = WrappedExample
    /\ output = <<"'", "a", "'", ",", "'", "b", "'", ",", "'", "c", "'">>

(***************************************************************************)
(* Option resolution of the command-line tool (checked under SpecCli).     *)
(***************************************************************************)
\* the wrapper and case names the help and the README list, with the short
\* forms the resolvers also take
RecognisedWrapperNames ==
    { <<"s", "i", "n", "g", "l", "e", "-", "q", "u", "o", "t", "e">>,
      <<"s", "i", "n", "g", "l", "e">>, <<"'">>,
      <<"d", "o", "u", "b", "l", "e", "-", "q", "u", "o", "t", "e">>,
      <<"d", "o", "u", "b", "l", "e">>, <<"\"">>,
      <<"p", "a", "r", "e", "n", "s">>, <<"(">>,
      <<"n", "o", "n", "e">> }

RecognisedCaseNames ==
    { <<"u", "p", "p", "e", "r">>,
      <<"u", "p", "p", "e", "r", "c", "a", "s", "e">>,
      <<"l", "o", "w", "e", "r">>,
      <<"l", "o", "w", "e", "r", "c", "a", "s", "e">>,
      <<"n", "o", "n", "e">> }

WrapperFlags == {<<"-", "w">>, <<"-", "-", "w", "r", "a", "p", "p", "e", "r">>}
CaseFlags == {<<"-", "c">>, <<"-", "-", "c", "a", "s", "e">>}
DelimiterFlags == {<<"-", "d">>, <<"-", "-", "d", "e", "l", "i", "m", "i", "t", "e", "r">>}

\* C17: a wrapper name or a case-mode name that is not a recognised alias is
\* rejected: the process reports an error, exits with status 1 and writes
\* nothing to standard output, and the stages never run with a wrapper or a
\* case mode outside the enumerations.
C17_UnrecognisedNamesRejected ==
    /\ (pc # "main" /\ exitCode = "running") =>
          /\ wrapper \in Wrapper
          /\ caseMode \in CaseMode
    /\ \A flags \in {WrapperFlags, CaseFlags} :
          LET names == IF flags = WrapperFlags THEN RecognisedWrapperNames
                       ELSE RecognisedCaseNames
          IN  ( /\ pc # "main"
                /\ Len(argv) >= 2
                /\ argv[1] \in flags
                /\ ToLowerCase(argv[2]) \notin names ) =>
                    /\ exitCode = "1"
                    /\ stdout = <<>>
                    /\ stderr # <<>>

(***************************************************************************)
(* The three copies of the pipeline (checked under SpecCopies).            *)
(***************************************************************************)
\* C19: for every text and every option combination all copies can express,
\* the first App, the second App and the engine give the same output.
C19_CopiesAgree ==
    (pc = "joined" /\ outputV1.done /\ outputV2.done) =>
        /\ outputV1.value = output
        /\ outputV2.value = output

\* the delimiter kind a name stands for, by the README's table
NamedDelimiter(name) ==
    CASE name \in {<<"c", "o", "m", "m", "a">>, <<",">>} -> ","
      [] name \in {<<"s", "e", "m", "i", "c", "o", "l", "o", "n">>, <<";">>} -> ";"
      [] name \in {<<"n", "e", "w", "l", "i", "n", "e">>, <<"n", "e", "w", "-", "l", "i", "n", "e">>} -> "NEWLINE"
      [] name \in {<<"c", "o", "m", "m", "a", "+", "n", "e", "w", "l", "i", "n", "e">>,
                   <<"c", "o", "m", "m", "a", "+", "n", "e", "w", "-", "l", "i", "n", "e">>} -> "COMMA_NEWLINE"
      [] name \in {<<"p", "i", "p", "e">>, <<"|">>} -> "|"
      [] OTHER -> "custom"

\* C20: the argument of -d resolves, whatever its case, to the kind its name
\* stands for with an empty custom string; any other argument becomes the
\* custom delimiter, character for character.
C20_DelimiterResolved ==
    ( /\ pc = "read"
      /\ Len(argv) = 2
      /\ argv[1] \in DelimiterFlags ) =>
          LET kind == NamedDelimiter(ToLowerCase(argv[2]))
          IN  /\ delimiter = kind
              /\ customDelimiter = (IF kind = "custom" THEN argv[2] ELSE <<>>)

(***************************************************************************)
(* The stages are pure: each returns a new value and leaves its arguments  *)
(* as they were (checked under Spec).                                      *)
(***************************************************************************)
\* C18: no stage modifies its input: parsing leaves the text as it was,
\* transforming leaves the parsed list as it was, joining leaves the
\* transformed list as it was, and none of them touches the options or the
\* results of the stages before it.
C18_StagesLeaveInputsAlone ==
    [][ /\ (pc = "start" /\ pc' = "parsed") =>
              /\ text' = text
              /\ options' = options
        /\ (pc = "parsed" /\ pc' = "transformed") =>
              /\ parsed' = parsed
              /\ text' = text
              /\ options' = options
        /\ (pc = "transformed" /\ pc' = "joined") =>
              /\ transformed' = transformed
              /\ parsed' = parsed
              /\ customDelimiter' = customDelimiter
              /\ options' = options ]_vars

\* every stage has run with options that change the values, and the parsed
\* list still holds what the parser returned
C18_Witness ==
    /\ pc = "joined"
    /\ caseMode = "upper"
    /\ wrapper = "("
    /\ dedup = FALSE
    /\ text = <<"a", ",", "a">>
    /\ parsed = <<<<"a">>, <<"a">>>>
    /\ transformed = <<<<"(", "A", ")">>, <<"(", "A", ")">>>>

(***************************************************************************)
(* What the command-line tool writes (checked under SpecCli).              *)
(***************************************************************************)
\* C21: once the input is parsed, a non-empty list is formatted and the
\* output string followed by one newline is all that reaches standard
\* output; an empty list ends the process with status 0 and nothing
\* written, not even a newline.  Nothing is written before that point.
C21_StdoutIsOutputPlusNewline ==
    /\ [](pc \in {"read", "start", "parsed", "transformed", "joined"} =>
              stdout = <<>>)
    /\ []((pc = "exited" /\ Len(parsed) > 0) =>
              /\ stdout = output \o <<"\n">>
              /\ exitCode = "0")
    /\ [][ /\ (pc = "parsed" /\ Len(parsed) = 0) =>
                 /\ pc' = "exited"
                 /\ exitCode' = "0"
                 /\ stdout' = <<>>
           /\ (pc = "parsed" /\ Len(parsed) > 0) => pc' = "transformed"
           /\ pc = "transformed" => pc' = "joined"
           /\ pc = "joined" => pc' = "exited" ]_vars

\* two values have been formatted and written with the newline
C21_Witness ==
    /\ pc = "exited"
    /\ exitCode = "0"
    /\ parsed = <<<<"a">>, <<"b">>>>
    /\ stdout = <<"'", "a", "'", ",", "'", "b", "'", "\n">>

(***************************************************************************)
(* Fragments too short to be wrapped (checked under SpecParse).            *)
(***************************************************************************)
\* the fragments of the text that are one character long once trimmed
OneCharFragments ==
    { Trim(Fragments(text)[n]) : n \in 1..Len(Fragments(text)) } \cap
    { <<c>> : c \in {"'", "\"", "(", ")", "a"} }

\* C22: a wrapper is removed only from a trimmed fragment of two characters
\* or more: a fragment that is one character long, a lone ' or " included,
\* is kept as a one-character value and is not discarded.
C22_LoneQuoteKept ==
    pc = "parsed" =>
        \A f \in OneCharFragments : \E i \in 1..Len(parsed) : parsed[i] = f

(***************************************************************************)
(* The Reset button and the copied indicator (checked under SpecApp).      *)
(***************************************************************************)
\* the input and every option hold what handleReset assigns
AtResetValues ==
    /\ text = <<>>
    /\ wrapper = "'"
    /\ delimiter = ","
    /\ customDelimiter = <<>>
    /\ dedup = TRUE
    /\ trim = TRUE
    /\ caseMode = "none"

\* C23: isDirty is false exactly when the input and every option hold the
\* values handleReset assigns; whenever one of them differs, the Reset
\* button is enabled.
C23_DirtyIffNotReset == pc = "app" => (isDirty <=> ~AtResetValues)

\* C24: the expiry of a timer started by an earlier copy does not set copied
\* back to false while the timer of a later copy is still pending.
C24_EarlierTimerKeepsCopied ==
    [][(timers' = timers - 1 /\ timers' > 0) => copied' = copied]_vars

(***************************************************************************)
(* The drop zone of FileUpload (checked under SpecUpload).                 *)
(***************************************************************************)
\* the highlight agrees with the counter, and the counter is not negative
DragConsistent(dragging, counter) ==
    /\ dragging <=> counter > 0
    /\ counter >= 0

\* C25 as stated: after any sequence of dragenter, dragleave, dragover and
\* drop events isDragging is true exactly when dragCounter is greater than
\* 0, dragCounter is never negative, and after a drop dragCounter is 0 and
\* isDragging false.
C25_Original ==
    pc = "upload" =>
        /\ DragConsistent(isDragging, dragCounter)
        /\ event.handler = "drop" => (dragCounter = 0 /\ ~isDragging)

\* C25: isDragging is true whenever dragCounter is greater than 0, and after
\* a drop dragCounter is 0 and isDragging false; every event other than a
\* dragleave arriving at dragCounter 0 keeps "isDragging exactly when
\* dragCounter > 0, dragCounter not negative" once it holds.
C25_ConsistentWhileLeavesAreMatched ==
    /\ [](dragCounter > 0 => isDragging)
    /\ [](event.handler = "drop" => (dragCounter = 0 /\ ~isDragging))
    /\ [][ ( /\ DragConsistent(isDragging, dragCounter)
             /\ ~(event'.handler = "dragleave" /\ dragCounter = 0) )
           => DragConsistent(isDragging', dragCounter') ]_vars

\* the pointer has entered the zone and a child and left one of them
C25_Witness ==
    /\ event.handler = "dragleave"
    /\ dragCounter = 1
    /\ isDragging

(***************************************************************************)
(* The checks and the reads of handleFile (checked under SpecUpload).      *)
(***************************************************************************)
\* the part of a name from its last dot on, in lower case, is on the list
HasAcceptedExtension(name) ==
    \E k \in 1..Len(name) :
        /\ name[k] = "."
        /\ \A j \in (k + 1)..Len(name) : name[j] # "."
        /\ ToLowerCase(SubSeq(name, k, Len(name))) \in
              { <<".", "t", "x", "t">>, <<".", "c", "s", "v">>,
                <<".", "j", "s", "o", "n">>, <<".", "t", "s", "v">>,
                <<".", "x", "m", "l">> }

FiveMegabytes == 5242880

\* the step handed a file to handleFile
FileHandled == event'.handler \in {"drop", "change"} /\ event'.withFile

FileAccepted == HasAcceptedExtension(event'.name) /\ event'.size <= FiveMegabytes

=============================================================================
